---------------------------- MODULE Spec2Model ----------------------------
(***************************************************************************)
(* HydroGuard: the view-state machine of src/app/index.tsx.                *)
(*                                                                         *)
(* The file holds two variants of the App component:                       *)
(*   "sensor"  lines 55-350: connect, disconnect, monitoring loop with a   *)
(*             fetch of the ESP32 sensors per tick, heart-rate chart;      *)
(*   "scan"    lines 630-903: mock device scan, connect, disconnect,       *)
(*             monitoring loop without any network call.                   *)
(* A behaviour of the model is the life of one mounted App of one variant. *)
(*                                                                         *)
(* Every callback (a tap handler, a timer callback, the settling of a      *)
(* fetch, the OK button of the alert prompt) is one action; the re-render  *)
(* and the useEffect bodies it triggers are part of the same action.       *)
(***************************************************************************)
EXTENDS Integers, Sequences, FiniteSets, TLC

\* Bounds of the model (not program constants).
MaxTimers == 2        \* pending setTimeout callbacks of one kind
MaxPrompts == 1       \* DROWNING ALERT prompts on screen, not yet answered
MaxInflight == 2      \* fetches issued and not yet settled
RandomResolution == 1000  \* Math.random() is drawn as r / RandomResolution

\* Program constants.
AlertThreshold == 70  \* index.tsx:138, 696
MaxPoints == 10       \* index.tsx:108
PercentScale == 100   \* index.tsx:134, 692

VARIABLES
    variant,          \* which App of index.tsx is mounted
    isConnected,      \* useState, lines 57 / 632
    waterMovement,    \* useState, lines 58 / 633
    isMonitoring,     \* useState, lines 59 / 634
    alertActive,      \* useState, lines 60 / 635
    isScanning,       \* useState, lines 61 / 636
    availableDevices, \* useState, lines 62 / 637
    sensorData,       \* useState, line 63: <<>> is null, <<body>> a snapshot
    error,            \* useState, line 64
    heartRateData,    \* useState, lines 65-68: labels and datasets[0].data
    interval,         \* the setInterval handle of the monitoring effect is armed
    scanTimers,       \* setTimeout callbacks of scanForDevices not yet run
    connectTimers,    \* setTimeout callbacks of connectToDevice not yet run
    prompts,          \* DROWNING ALERT prompts whose OK was not pressed yet
    inflight,         \* the number of fetches awaiting their response
    ticked,           \* history: the interval callback has run at least once
    overtaken,        \* history: how many of the fetches in flight were issued
                      \* before a fetch whose body was already applied
    staleSnapshot,    \* history: the body applied last came from a fetch issued
                      \* before the fetch whose body was applied before it
    staleConnects,    \* history: how many of the pending connect timers were
                      \* set before the last disconnectDevice
    lastAction        \* history: the callback that produced this state

vars == <<variant, isConnected, waterMovement, isMonitoring, alertActive,
          isScanning, availableDevices, sensorData, error, heartRateData,
          interval, scanTimers, connectTimers, prompts, inflight, ticked,
          overtaken, staleSnapshot, staleConnects, lastAction>>

Variants == {"sensor", "scan"}

\* useState<string | null>(null), line 64, and the message of line 123.
NoError == "null"
FetchErrorMessage == "Failed to fetch sensor data. Please check your network connection."

\* mockDevices, lines 653-657.
mockDevices ==
    << [id |-> "001", name |-> "HydroGuard-Pool", signalStrength |-> 90],
       [id |-> "002", name |-> "HydroGuard-Spa", signalStrength |-> 75],
       [id |-> "003", name |-> "HydroGuard-Beach", signalStrength |-> 60] >>

Range(s) == {s[i] : i \in 1..Len(s)}

-----------------------------------------------------------------------------
(* Inputs of the environment.                                              *)

\* Math.random() values, as numerators over RandomResolution: two draws on
\* either side of the threshold and the largest one.
RandomDraws ==
    { (709 * RandomResolution) \div 1000,
      (710 * RandomResolution) \div 1000,
      RandomResolution - 1 }

\* Bodies the ESP32 may answer with (SensorData, lines 42-45).
BodyRed88 == [heart_rate |-> [red |-> 88, ir |-> 51]]
BodyNoRed == [heart_rate |-> [ir |-> 51]]
BodyNoHeartRate == [mpu6050 |-> [temperature |-> 25]]
Malformed == [malformed |-> TRUE]

\* A settled fetch: what fetch() did, the status line, what json() gives,
\* and the wall clock (seconds since midnight) when the updater runs.
Rejected == [net |-> "rejected", status |-> 0, json |-> Malformed, at |-> 43200]
Status500 == [net |-> "ok", status |-> 500, json |-> BodyRed88, at |-> 43200]
BadJson == [net |-> "ok", status |-> 200, json |-> Malformed, at |-> 43200]
Ok88 == [net |-> "ok", status |-> 200, json |-> BodyRed88, at |-> 43200]
OkNoRed == [net |-> "ok", status |-> 200, json |-> BodyNoRed, at |-> 43203]
OkNoHeartRate == [net |-> "ok", status |-> 200, json |-> BodyNoHeartRate, at |-> 43203]

\* The outcomes drawn in the control specification and in the data-path one.
ControlOutcomes == {Rejected, Ok88}
SeriesOutcomes == {Rejected, Status500, BadJson, Ok88, OkNoRed, OkNoHeartRate}

-----------------------------------------------------------------------------
(* Pure helpers.                                                           *)

\* Math.floor(Math.random() * 100), lines 134 / 692.
NewMovementRound(r) == (r * PercentScale + RandomResolution \div 2) \div RandomResolution
NewMovement(r) == (r * PercentScale) \div RandomResolution

\* newMovement > 70, lines 138 / 696.
ExceedsThresholdInclusive(m) == m >= AlertThreshold
ExceedsThreshold(m) == m > AlertThreshold

\* new Date().toLocaleTimeString(), line 113: hours, minutes, seconds.
toLocaleTimeString(t) == << t \div 3600, (t \div 60) % 60, t % 60 >>

\* response.ok, line 95.
ResponseOk(resp) == resp.status >= 200 /\ resp.status <= 299

\* The try block of fetchData throws: fetch rejects (94), the status is not
\* 2xx (95-97), or response.json() rejects (98).
FetchThrows(resp) ==
    \/ resp.net = "rejected"
    \/ ~ResponseOk(resp)
    \/ resp.json = Malformed

\* data.heart_rate?.red || 0, line 114.
RedOrZero(data) ==
    IF "heart_rate" \in DOMAIN data
    THEN IF "red" \in DOMAIN data.heart_rate /\ data.heart_rate.red # 0
         THEN data.heart_rate.red
         ELSE 0
    ELSE 0

\* The updater given to setHeartRateData, lines 103-120.
HeartRateUpdaterOffByOne(prevState, data, t) ==
    LET full == Len(prevState.labels) > MaxPoints
        newLabels == IF full THEN Tail(prevState.labels) ELSE prevState.labels
        newData == IF full THEN Tail(prevState.data) ELSE prevState.data
    IN  [labels |-> Append(newLabels, toLocaleTimeString(t)),
         data |-> Append(newData, RedOrZero(data))]
HeartRateUpdaterUnshift(prevState, data, t) ==
    LET full == Len(prevState.labels) >= MaxPoints
        newLabels == IF full THEN Tail(prevState.labels) ELSE prevState.labels
        newData == IF full THEN Tail(prevState.data) ELSE prevState.data
    IN  [labels |-> <<toLocaleTimeString(t)>> \o newLabels,
         data |-> <<RedOrZero(data)>> \o newData]
HeartRateUpdater(prevState, data, t) ==
    LET full == Len(prevState.labels) >= MaxPoints
        newLabels == IF full THEN Tail(prevState.labels) ELSE prevState.labels
        newData == IF full THEN Tail(prevState.data) ELSE prevState.data
    IN  [labels |-> Append(newLabels, toLocaleTimeString(t)),
         data |-> Append(newData, RedOrZero(data))]

\* The monitoring useEffect, lines 128-156 / 686-711: after the cleanup of
\* the previous run, an interval is armed iff isMonitoring && isConnected.
MonitoringEffectOr(mon, conn) == mon \/ conn
MonitoringEffect(mon, conn) == mon /\ conn

\* The slots of inflight in use or promised: in the sensor variant every
\* pending connect timer may issue the initial fetch of lines 159-163.
Slots == inflight + (IF variant = "sensor" THEN connectTimers ELSE 0)

-----------------------------------------------------------------------------
Init ==
    /\ variant \in Variants
    /\ isConnected = FALSE
    /\ waterMovement = 0
    /\ isMonitoring = FALSE
    /\ alertActive = FALSE
    /\ isScanning = FALSE
    /\ availableDevices = <<>>
    /\ sensorData = <<>>
    /\ error = NoError
    /\ heartRateData = [labels |-> <<>>, data |-> <<>>]
    /\ interval = MonitoringEffect(FALSE, FALSE)
    /\ scanTimers = 0
    /\ connectTimers = 0
    /\ prompts = 0
    /\ inflight = 0
    /\ ticked = FALSE
    /\ overtaken = 0
    /\ staleSnapshot = FALSE
    /\ staleConnects = 0
    /\ lastAction = "mount"

-----------------------------------------------------------------------------
(* The scan variant's device discovery.                                    *)

\* scanForDevices, lines 647-662, up to the setTimeout; the button is on
\* the connection screen (900) and disabled while scanning (778).
scanForDevices ==
    /\ variant = "scan"
    /\ ~isConnected
    /\ ~isScanning
    /\ scanTimers < MaxTimers
    /\ isScanning' = TRUE
    /\ scanTimers' = scanTimers + 1
    /\ lastAction' = "scanForDevices"
    /\ UNCHANGED <<variant, isConnected, waterMovement, isMonitoring, alertActive,
                   availableDevices, sensorData, error, heartRateData, interval,
                   connectTimers, prompts, inflight, ticked>>
    /\ UNCHANGED <<overtaken, staleSnapshot, staleConnects>>

\* The setTimeout callback of scanForDevices, lines 651-661.
ScanTimeoutKeepsScanning ==
    /\ scanTimers > 0
    /\ scanTimers' = scanTimers - 1
    /\ availableDevices' = mockDevices
    /\ lastAction' = "ScanTimeout"
    /\ UNCHANGED <<variant, isConnected, waterMovement, isMonitoring, alertActive,
                   isScanning, sensorData, error, heartRateData, interval,
                   connectTimers, prompts, inflight, ticked>>
    /\ UNCHANGED <<overtaken, staleSnapshot, staleConnects>>
ScanTimeout ==
    /\ scanTimers > 0
    /\ scanTimers' = scanTimers - 1
    /\ availableDevices' = mockDevices
    /\ isScanning' = FALSE
    /\ lastAction' = "ScanTimeout"
    /\ UNCHANGED <<variant, isConnected, waterMovement, isMonitoring, alertActive,
                   sensorData, error, heartRateData, interval,
                   connectTimers, prompts, inflight, ticked>>
    /\ UNCHANGED <<overtaken, staleSnapshot, staleConnects>>

-----------------------------------------------------------------------------
(* Connection.                                                             *)

\* connectToDevice, lines 71-82 / 665-676, up to the setTimeout.  In the
\* scan variant it is the onPress of a listed device (743) on the
\* connection screen (900).  The sensor variant renders no caller of it
\* (347): there it is invoked from outside, while not connected.
connectToDevice(device) ==
    /\ ~isConnected
    /\ variant = "scan" => device \in Range(availableDevices)
    /\ connectTimers < MaxTimers
    /\ variant = "sensor" => Slots < MaxInflight
    /\ isScanning' = FALSE
    /\ connectTimers' = connectTimers + 1
    /\ lastAction' = "connectToDevice"
    /\ UNCHANGED <<variant, isConnected, waterMovement, isMonitoring, alertActive,
                   availableDevices, sensorData, error, heartRateData, interval,
                   scanTimers, prompts, inflight, ticked>>
    /\ UNCHANGED <<overtaken, staleSnapshot, staleConnects>>

\* The setTimeout callback of connectToDevice, lines 78-81 / 672-675, with
\* the effects its render runs: the monitoring effect (128-156) and, in the
\* sensor variant, the fetch of lines 159-163 when isConnected became true.
ConnectTimeoutFails ==
    /\ connectTimers > 0
    /\ connectTimers' = connectTimers - 1
    /\ lastAction' = "ConnectTimeout"
    /\ UNCHANGED <<variant, isConnected, waterMovement, isMonitoring, alertActive,
                   isScanning, availableDevices, sensorData, error, heartRateData,
                   interval, scanTimers, prompts, inflight, ticked>>
    /\ staleConnects' = IF staleConnects > 0 THEN staleConnects - 1 ELSE 0
    /\ UNCHANGED <<overtaken, staleSnapshot>>
ConnectTimeout ==
    /\ connectTimers > 0
    /\ connectTimers' = connectTimers - 1
    /\ isConnected' = TRUE
    /\ interval' = MonitoringEffect(isMonitoring, TRUE)
    /\ inflight' = IF variant = "sensor" /\ ~isConnected
                   THEN inflight + 1
                   ELSE inflight
    /\ lastAction' = "ConnectTimeout"
    /\ UNCHANGED <<variant, waterMovement, isMonitoring, alertActive, isScanning,
                   availableDevices, sensorData, error, heartRateData,
                   scanTimers, prompts, ticked>>
    /\ staleConnects' = IF staleConnects > 0 THEN staleConnects - 1 ELSE 0
    /\ UNCHANGED <<overtaken, staleSnapshot>>

\* disconnectDevice, lines 85-89 / 679-683, and the monitoring effect's
\* cleanup; the button is on the monitoring screen (314 / 867).
disconnectDeviceKeepsAlert ==
    /\ isConnected
    /\ isMonitoring' = FALSE
    /\ isConnected' = FALSE
    /\ interval' = MonitoringEffect(FALSE, FALSE)
    /\ lastAction' = "disconnectDevice"
    /\ UNCHANGED <<variant, waterMovement, alertActive, isScanning, availableDevices,
                   sensorData, error, heartRateData, scanTimers, connectTimers,
                   prompts, inflight, ticked>>
    /\ staleConnects' = connectTimers
    /\ UNCHANGED <<overtaken, staleSnapshot>>
disconnectDeviceAborts ==
    /\ isConnected
    /\ isMonitoring' = FALSE
    /\ isConnected' = FALSE
    /\ alertActive' = FALSE
    /\ interval' = MonitoringEffect(FALSE, FALSE)
    /\ inflight' = 0
    /\ overtaken' = 0
    /\ lastAction' = "disconnectDevice"
    /\ UNCHANGED <<variant, waterMovement, isScanning, availableDevices,
                   sensorData, error, heartRateData, scanTimers, connectTimers,
                   prompts, ticked>>
    /\ staleConnects' = connectTimers
    /\ UNCHANGED staleSnapshot
disconnectDevice ==
    /\ isConnected
    /\ isMonitoring' = FALSE
    /\ isConnected' = FALSE
    /\ alertActive' = FALSE
    /\ interval' = MonitoringEffect(FALSE, FALSE)
    /\ lastAction' = "disconnectDevice"
    /\ UNCHANGED <<variant, waterMovement, isScanning, availableDevices,
                   sensorData, error, heartRateData, scanTimers, connectTimers,
                   prompts, inflight, ticked>>
    /\ staleConnects' = connectTimers
    /\ UNCHANGED <<overtaken, staleSnapshot>>

-----------------------------------------------------------------------------
(* Monitoring.                                                             *)

\* toggleMonitoring, lines 166-169 / 714-717, and the monitoring effect;
\* the button is on the monitoring screen (305 / 858).
toggleMonitoringKeepsAlert ==
    /\ isConnected
    /\ isMonitoring' = ~isMonitoring
    /\ interval' = MonitoringEffect(~isMonitoring, isConnected)
    /\ lastAction' = "toggleMonitoring"
    /\ UNCHANGED <<variant, isConnected, waterMovement, alertActive, isScanning,
                   availableDevices, sensorData, error, heartRateData, scanTimers,
                   connectTimers, prompts, inflight, ticked>>
    /\ UNCHANGED <<overtaken, staleSnapshot, staleConnects>>
toggleMonitoring ==
    /\ isConnected
    /\ isMonitoring' = ~isMonitoring
    /\ alertActive' = IF alertActive THEN FALSE ELSE alertActive
    /\ interval' = MonitoringEffect(~isMonitoring, isConnected)
    /\ lastAction' = "toggleMonitoring"
    /\ UNCHANGED <<variant, isConnected, waterMovement, isScanning,
                   availableDevices, sensorData, error, heartRateData, scanTimers,
                   connectTimers, prompts, inflight, ticked>>
    /\ UNCHANGED <<overtaken, staleSnapshot, staleConnects>>

\* The setInterval callback, lines 132-149 / 690-704, with Math.random()
\* drawn from draws: the sample, the threshold check with its prompt, and
\* in the sensor variant the call of fetchData up to its first await.
TickSerialized(draws) ==
    /\ interval
    /\ inflight = 0
    /\ \E r \in draws :
         LET newMovement == NewMovement(r) IN
         /\ waterMovement' = newMovement
         /\ IF ExceedsThreshold(newMovement)
            THEN /\ prompts < MaxPrompts
                 /\ alertActive' = TRUE
                 /\ prompts' = prompts + 1
            ELSE UNCHANGED <<alertActive, prompts>>
    /\ IF variant = "sensor"
       THEN /\ Slots < MaxInflight
            /\ inflight' = inflight + 1
       ELSE UNCHANGED inflight
    /\ ticked' = TRUE
    /\ lastAction' = "Tick"
    /\ UNCHANGED <<variant, isConnected, isMonitoring, isScanning, availableDevices,
                   sensorData, error, heartRateData, interval, scanTimers,
                   connectTimers>>
    /\ UNCHANGED <<overtaken, staleSnapshot, staleConnects>>
Tick(draws) ==
    /\ interval
    /\ \E r \in draws :
         LET newMovement == NewMovement(r) IN
         /\ waterMovement' = newMovement
         /\ IF ExceedsThreshold(newMovement)
            THEN /\ prompts < MaxPrompts
                 /\ alertActive' = TRUE
                 /\ prompts' = prompts + 1
            ELSE UNCHANGED <<alertActive, prompts>>
    /\ IF variant = "sensor"
       THEN /\ Slots < MaxInflight
            /\ inflight' = inflight + 1
       ELSE UNCHANGED inflight
    /\ ticked' = TRUE
    /\ lastAction' = "Tick"
    /\ UNCHANGED <<variant, isConnected, isMonitoring, isScanning, availableDevices,
                   sensorData, error, heartRateData, interval, scanTimers,
                   connectTimers>>
    /\ UNCHANGED <<overtaken, staleSnapshot, staleConnects>>

\* The OK button of the DROWNING ALERT prompt, lines 143 / 701.
AlertOKStopsMonitoring ==
    /\ prompts > 0
    /\ prompts' = prompts - 1
    /\ alertActive' = FALSE
    /\ isMonitoring' = FALSE
    /\ interval' = MonitoringEffect(FALSE, isConnected)
    /\ lastAction' = "AlertOK"
    /\ UNCHANGED <<variant, isConnected, waterMovement, isScanning,
                   availableDevices, sensorData, error, heartRateData,
                   scanTimers, connectTimers, inflight, ticked>>
    /\ UNCHANGED <<overtaken, staleSnapshot, staleConnects>>
AlertOK ==
    /\ prompts > 0
    /\ prompts' = prompts - 1
    /\ alertActive' = FALSE
    /\ lastAction' = "AlertOK"
    /\ UNCHANGED <<variant, isConnected, waterMovement, isMonitoring, isScanning,
                   availableDevices, sensorData, error, heartRateData, interval,
                   scanTimers, connectTimers, inflight, ticked>>
    /\ UNCHANGED <<overtaken, staleSnapshot, staleConnects>>

-----------------------------------------------------------------------------
(* fetchData after its await, lines 95-124.                                *)

\* The catch block, lines 121-124.
fetchDataCatchClears ==
    /\ error' = FetchErrorMessage
    /\ sensorData' = <<>>
    /\ heartRateData' = [labels |-> <<>>, data |-> <<>>]
    /\ lastAction' = "FetchFailed"
fetchDataCatch ==
    /\ error' = FetchErrorMessage
    /\ lastAction' = "FetchFailed"
    /\ UNCHANGED <<sensorData, heartRateData>>

\* The rest of the try block, lines 98-120.
fetchDataThenClearsError(resp) ==
    /\ sensorData' = <<resp.json>>
    /\ heartRateData' = HeartRateUpdater(heartRateData, resp.json, resp.at)
    /\ lastAction' = "FetchSucceeded"
    /\ error' = NoError
fetchDataThen(resp) ==
    /\ sensorData' = <<resp.json>>
    /\ heartRateData' = HeartRateUpdater(heartRateData, resp.json, resp.at)
    /\ lastAction' = "FetchSucceeded"
    /\ UNCHANGED error

\* The i-th oldest of the fetches in flight settles with one of outcomes.
\* A body that is applied overtakes the fetches issued before its own; the
\* body of an overtaken fetch, applied later, replaces a newer one.
FetchSettleAt(i, outcomes) ==
    /\ i \in 1..inflight
    /\ inflight' = inflight - 1
    /\ \E resp \in outcomes :
         IF FetchThrows(resp)
         THEN /\ fetchDataCatch
              /\ overtaken' = IF i <= overtaken THEN overtaken - 1 ELSE overtaken
              /\ UNCHANGED staleSnapshot
         ELSE /\ fetchDataThen(resp)
              /\ overtaken' = IF i <= overtaken THEN overtaken - 1 ELSE i - 1
              /\ staleSnapshot' = (i <= overtaken)
    /\ UNCHANGED <<variant, isConnected, waterMovement, isMonitoring, alertActive,
                   isScanning, availableDevices, interval, scanTimers,
                   connectTimers, prompts, ticked, staleConnects>>

\* The fetches that may settle next: nothing in fetchData orders the
\* settling of two fetches (anyOrder); a network that answers in the order
\* of the requests settles the oldest one.
FetchSettle(outcomes, anyOrder) ==
    \E i \in (IF anyOrder THEN 1..inflight ELSE 1..1) : FetchSettleAt(i, outcomes)

\* renderSensorData, lines 172-238: which of its three views is returned.
renderSensorData ==
    IF error # NoError THEN "error"
    ELSE IF sensorData = <<>> THEN "loading"
    ELSE "readings"

-----------------------------------------------------------------------------
Next ==
    \/ scanForDevices
    \/ ScanTimeout
    \/ \E d \in Range(mockDevices) : connectToDevice(d)
    \/ ConnectTimeout
    \/ disconnectDevice
    \/ toggleMonitoring
    \/ Tick(RandomDraws)
    \/ AlertOK
    \/ FetchSettle(ControlOutcomes, TRUE)

Spec == Init /\ [][Next]_vars

-----------------------------------------------------------------------------
(* The data path of the sensor variant: every outcome of a fetch, with one *)
(* low Math.random() draw so that no alert is raised and with the fetches  *)
(* answered in the order of the requests.                                  *)
InitSeries == Init /\ variant = "sensor"

LowDraws == {0}

NextSeries ==
    \/ \E d \in Range(mockDevices) : connectToDevice(d)
    \/ ConnectTimeout
    \/ disconnectDevice
    \/ toggleMonitoring
    \/ Tick(LowDraws)
    \/ FetchSettle(SeriesOutcomes, FALSE)

SpecSeries == InitSeries /\ [][NextSeries]_vars

(* The timers of setTimeout always run: nothing in index.tsx clears them.  *)
LiveSpec == Spec /\ WF_vars(ScanTimeout) /\ WF_vars(ConnectTimeout)

-----------------------------------------------------------------------------
(* Properties.                                                             *)

Labels == heartRateData.labels
Points == heartRateData.data

\* All of a sequence but its last element.
Front(s) == SubSeq(s, 1, Len(s) - 1)

\* C1, as the specification states it: once a tick has run, the alert flag
\* is set if and only if the latest water-movement value is above 70.
C1_AlertIffAboveThreshold ==
    ticked => (alertActive <=> waterMovement > AlertThreshold)

\* C1, amended: the alert flag follows the ticks, not the latest value.  A
\* tick that samples a value above 70 sets it, a tick that samples a value
\* of at most 70 leaves it as it was, and only a tick that samples a value
\* above 70 turns it on; OK, toggleMonitoring and disconnect clear it
\* whatever the value.
C1_AlertRaisedOnlyByHighTick ==
    [][ /\ (lastAction' = "Tick" /\ waterMovement' > AlertThreshold) => alertActive'
        /\ (lastAction' = "Tick" /\ waterMovement' <= AlertThreshold)
              => (alertActive' = alertActive)
        /\ (~alertActive /\ alertActive')
              => (lastAction' = "Tick" /\ waterMovement' > AlertThreshold)
        /\ (lastAction' \in {"AlertOK", "toggleMonitoring", "disconnectDevice"})
              => ~alertActive'
      ]_vars

\* C1 witness: the alert was acknowledged while the latest value stays above 70.
C1_Witness ==
    /\ lastAction = "AlertOK"
    /\ ticked
    /\ waterMovement > AlertThreshold
    /\ ~alertActive
    /\ isMonitoring

\* C2: the interval callback runs only from a state where isMonitoring and
\* isConnected are both true, so none runs after a stop or a disconnect
\* until monitoring is started again while connected.
C2_TickOnlyWhileMonitoring ==
    [][ lastAction' = "Tick" => (isMonitoring /\ isConnected) ]_vars

\* C2 witness: a tick has run, monitoring was stopped after it and no
\* interval is armed any more.
C2_Witness ==
    /\ ticked
    /\ lastAction = "toggleMonitoring"
    /\ isConnected
    /\ ~isMonitoring
    /\ ~interval

\* C3: the state disconnectDevice leaves has isConnected, isMonitoring and
\* alertActive all false.
C3_DisconnectClearsAll ==
    lastAction = "disconnectDevice"
        => (~isConnected /\ ~isMonitoring /\ ~alertActive)

\* C3 witness: a disconnect with an alert prompt on screen and a fetch
\* outstanding.
C3_Witness ==
    /\ lastAction = "disconnectDevice"
    /\ prompts > 0
    /\ inflight > 0
    /\ waterMovement > AlertThreshold

\* C4: the heart-rate series never holds more than 10 points, its labels and
\* values stay paired, and every change of it keeps the points in insertion
\* order: the new series is the old one, without its first (oldest) point
\* when it held 10, followed by one new point.
C4_SeriesBoundedFifo ==
    /\ [](Len(Labels) <= MaxPoints /\ Len(Points) = Len(Labels))
    /\ [][ heartRateData' # heartRateData =>
             /\ Len(heartRateData'.labels) >= 1
             /\ Front(heartRateData'.labels) =
                  (IF Len(Labels) = MaxPoints THEN Tail(Labels) ELSE Labels)
             /\ Front(heartRateData'.data) =
                  (IF Len(Points) = MaxPoints THEN Tail(Points) ELSE Points)
         ]_vars

\* C4 witness: a successful fetch left the series full, with different
\* values at its two ends.
C4_Witness ==
    /\ lastAction = "FetchSucceeded"
    /\ Len(Labels) = MaxPoints
    /\ Points[1] # Points[MaxPoints]
    /\ Labels[1] # Labels[MaxPoints]

\* C5: the state reached by stopping monitoring (toggleMonitoring invoked
\* while isMonitoring was true) has the alert flag false.
C5_StopClearsAlert ==
    (lastAction = "toggleMonitoring" /\ ~isMonitoring) => ~alertActive

\* C5 witness: monitoring was stopped with an unanswered alert prompt on
\* screen and the latest value above 70.
C5_Witness ==
    /\ lastAction = "toggleMonitoring"
    /\ ~isMonitoring
    /\ prompts > 0
    /\ waterMovement > AlertThreshold

\* C6: a failed fetch sets the error message and leaves the sensor snapshot
\* and the heart-rate series as they were.
C6_FailureKeepsReadings ==
    [][ lastAction' = "FetchFailed" =>
          /\ error' = FetchErrorMessage
          /\ sensorData' = sensorData
          /\ heartRateData' = heartRateData
      ]_vars

\* C6 witness: a fetch failed when a snapshot and a non-empty series existed.
C6_Witness ==
    /\ lastAction = "FetchFailed"
    /\ error = FetchErrorMessage
    /\ sensorData # <<>>
    /\ Len(Points) > 0

\* The red value a body carries, 0 when it has none.
CarriedRed(body) ==
    IF "heart_rate" \in DOMAIN body /\ "red" \in DOMAIN body.heart_rate
    THEN body.heart_rate.red
    ELSE 0

\* Labels that read as a time of day.
IsTimeLabel(l) ==
    /\ Len(l) = 3
    /\ l[1] \in 0..23
    /\ l[2] \in 0..59
    /\ l[3] \in 0..59

\* C7: a successful fetch appends exactly one point at the end of the
\* series, with the red value of its body (0 when absent) and a time label;
\* the earlier points are kept in order, without the oldest one when the
\* series already held 10.
C7_SuccessAppendsOnePoint ==
    [][ lastAction' = "FetchSucceeded" =>
          LET body == sensorData'[1]
              keptLabels == IF Len(Labels) = MaxPoints THEN Tail(Labels) ELSE Labels
              keptPoints == IF Len(Points) = MaxPoints THEN Tail(Points) ELSE Points
              n == Len(heartRateData'.data)
          IN  /\ n = Len(keptPoints) + 1
              /\ Len(heartRateData'.labels) = n
              /\ Front(heartRateData'.data) = keptPoints
              /\ Front(heartRateData'.labels) = keptLabels
              /\ heartRateData'.data[n] = CarriedRed(body)
              /\ IsTimeLabel(heartRateData'.labels[n])
      ]_vars

\* C7 witness: a body without red arrived when the series was full and now
\* ends a full series that starts with an 88.
C7_Witness ==
    /\ lastAction = "FetchSucceeded"
    /\ sensorData = <<BodyNoRed>>
    /\ Len(Points) = MaxPoints
    /\ Points[MaxPoints] = 0
    /\ Points[1] = 88

\* C8: the water-movement value is an integer of 0..99 in every state, and
\* only a tick changes it.
C8_WaterMovementRange ==
    /\ [](waterMovement \in 0..(PercentScale - 1))
    /\ [][ waterMovement' # waterMovement => lastAction' = "Tick" ]_vars

\* C8 witness: a tick sampled the largest value.
C8_Witness ==
    /\ lastAction = "Tick"
    /\ waterMovement = PercentScale - 1

\* The ids of the listed devices, in order.
DeviceIds == [i \in 1..Len(availableDevices) |-> availableDevices[i].id]

ScanDone == DeviceIds = <<"001", "002", "003">> /\ ~isScanning

\* C9: scanForDevices enters the scanning state, and every scan is
\* eventually followed by a state where the list holds the devices 001, 002,
\* 003 in that order and the scanning flag is cleared.
C9_ScanCompletes ==
    /\ [](lastAction = "scanForDevices" => isScanning)
    /\ [](lastAction = "ScanTimeout" => ScanDone)
    /\ (scanTimers > 0) ~> ScanDone

\* C9 witness: the callback of a scan has run while another scan is pending.
C9_Witness ==
    /\ lastAction = "ScanTimeout"
    /\ ScanDone
    /\ scanTimers > 0

\* C10: the callback of every connect sets isConnected, and every connect is
\* eventually followed by a state where isConnected is true.
C10_ConnectCompletes ==
    /\ [](lastAction = "ConnectTimeout" => isConnected)
    /\ (connectTimers > 0) ~> isConnected

\* C10 witness: the device with id 002 is listed and a connect has completed.
C10_Witness ==
    /\ lastAction = "ConnectTimeout"
    /\ isConnected
    /\ variant = "scan"
    /\ availableDevices[2].id = "002"

\* C11: fetches are not serialized.  In the sensor variant a tick is never
\* held back by the fetches still in flight (it runs whenever the interval
\* is armed and the model has a free slot), and any of the fetches in
\* flight, not only the oldest, may be the next to settle.
C11_FetchesNotSerialized ==
    /\ (variant = "sensor" /\ interval /\ Slots < MaxInflight)
          => ENABLED Tick(LowDraws)
    /\ \A i \in 1..inflight : ENABLED FetchSettleAt(i, ControlOutcomes)

\* C11 witness: two fetches were in flight, the newer one was applied first
\* and the older one last, so with nothing in flight any more the snapshot
\* and the last point of the series come from the older request.
C11_Witness ==
    /\ lastAction = "FetchSucceeded"
    /\ staleSnapshot
    /\ inflight = 0
    /\ sensorData # <<>>
    /\ Len(Points) >= 2

\* C12: a fetch in flight is not cancelled by a stop or a disconnect.
\* toggleMonitoring and disconnectDevice leave the fetches in flight as they
\* are, and a fetch in flight can settle in any state, whatever isMonitoring
\* and isConnected are.
C12_InflightFetchNotCancelled ==
    /\ [][ lastAction' \in {"toggleMonitoring", "disconnectDevice"}
             => inflight' = inflight ]_vars
    /\ [](inflight > 0 => ENABLED FetchSettle(ControlOutcomes, TRUE))

\* C12 witness: a body was applied to the snapshot and the series while the
\* device was disconnected and monitoring was off (settling changes neither
\* flag, so they were false when the fetch settled).
C12_Witness ==
    /\ lastAction = "FetchSucceeded"
    /\ ~isConnected
    /\ ~isMonitoring
    /\ sensorData # <<>>
    /\ Len(Points) >= 1

\* C13: the alert flag is set only while monitoring is active: alertActive
\* implies isMonitoring, and with it isConnected.
C13_AlertOnlyWhileMonitoring ==
    alertActive => (isMonitoring /\ isConnected)

\* C13 witness: a tick has just raised the alert while monitoring runs,
\* with every prompt the model allows on screen.
C13_Witness ==
    /\ alertActive
    /\ isMonitoring
    /\ isConnected
    /\ interval
    /\ lastAction = "Tick"
    /\ prompts = MaxPrompts

\* C14: raising and acknowledging an alert touch the alert flag only.  A
\* tick, whatever it samples, leaves isMonitoring, isConnected and the armed
\* interval as they are; OK on the prompt sets alertActive to false and
\* leaves isMonitoring, isConnected, the interval, waterMovement, the sensor
\* snapshot and the heart-rate series as they are.
C14_AlertTouchesFlagOnly ==
    [][ /\ lastAction' = "Tick" =>
             /\ isMonitoring' = isMonitoring
             /\ isConnected' = isConnected
             /\ interval' = interval
             /\ interval'
        /\ lastAction' = "AlertOK" =>
             /\ ~alertActive'
             /\ isMonitoring' = isMonitoring
             /\ isConnected' = isConnected
             /\ interval' = interval
             /\ waterMovement' = waterMovement
             /\ sensorData' = sensorData
             /\ heartRateData' = heartRateData
      ]_vars

\* C14 witness: OK was pressed in the sensor variant with a snapshot on
\* screen; monitoring goes on and the value above 70 is still shown.
C14_Witness ==
    /\ lastAction = "AlertOK"
    /\ variant = "sensor"
    /\ isMonitoring
    /\ isConnected
    /\ interval
    /\ ~alertActive
    /\ waterMovement > AlertThreshold
    /\ sensorData # <<>>

\* C15: after disconnectDevice, isConnected stays false until connectToDevice
\* is invoked again: isConnected turns true only when no connect timer set
\* before the last disconnect is pending, that is, never by the callback of
\* a connect issued before the disconnect.  Stated of the scan variant,
\* where connectToDevice is the tap on a listed device.
C15_NoReconnectByEarlierConnect ==
    [][ (variant = "scan" /\ ~isConnected /\ isConnected')
          => staleConnects = 0 ]_vars

\* C16: once a failed fetch has set the error message nothing clears it: it
\* stays set through every later callback, successful fetches included, and
\* renderSensorData keeps returning the error view.
C16_ErrorNeverCleared ==
    [][ error # NoError
          => (error' = FetchErrorMessage /\ renderSensorData' = "error") ]_vars

\* C16 witness: a fetch succeeded after a failure; the snapshot and the
\* series were updated, the error view is still the one shown.
C16_Witness ==
    /\ lastAction = "FetchSucceeded"
    /\ error = FetchErrorMessage
    /\ sensorData # <<>>
    /\ Len(Points) >= 2
    /\ isConnected
    /\ renderSensorData = "error"

=============================================================================
